---- MODULE Spec2Model ----
(***************************************************************************)
(* Model of the text-to-SQL fine-tuning script (src/script.py) and of the  *)
(* stand-alone precision probe (src/test.py).                              *)
(*                                                                         *)
(* Strings are sequences of tokens.  A token is a delimiter tag, a newline,*)
(* a blank, or a run of ordinary text.  The four delimiter tags start with *)
(* '<' and end with '>' and cannot overlap one another, so a tag is one    *)
(* token.                                                                  *)
(***************************************************************************)
EXTENDS Integers, Sequences, FiniteSets, TLC

VARIABLES
    pc,            \* the statement of script.py about to run, "done" or "crashed"
    raised,        \* the exception that ended the process and where it was raised
    probe,         \* the execution environment seen by torch.cuda
    torch_dtype,   \* script.py: torch_dtype
    dataset,       \* script.py: dataset (rows, then the train/test splits)
    model,         \* script.py: model          (the model object it refers to)
    trainer,       \* script.py: trainer        (the model object it holds)
    peft_model,    \* script.py: peft_model     (the model object it wraps)
    merged_model,  \* script.py: merged_model   (the model object it is)
    pipe,          \* script.py: pipe           (the model object it holds)
    loads,         \* one entry per from_pretrained of a model: what was still held
    rand_idx,      \* script.py: rand_idx
    test_sample,   \* script.py: test_sample
    chat_input,    \* the turns handed to apply_chat_template
    prompt,        \* script.py: prompt
    outputs,       \* script.py: outputs[0]["generated_text"]
    printed,       \* what the process has written to standard output
    sample         \* the Raw Record given to create_conversation

vars == <<pc, raised, probe, torch_dtype, dataset, model, trainer, peft_model,
          merged_model, pipe, loads, rand_idx, test_sample, chat_input, prompt,
          outputs, printed, sample>>

(***************************************************************************)
(* Bounds of the model.                                                    *)
(***************************************************************************)
\* longest sql_context / sql_prompt of a Raw Record drawn as an input
MaxLen == 2
\* most chunks in an arbitrary message content given to the extraction step
MaxChunks == 4
\* the script's sizes are Scale * 5 records and a test share of Scale / (Scale * 5)
Scale == 1
\* the corpus may hold up to this many records more than the subsample
MaxExtra == 1
\* rotations the random generator may apply in a shuffle
MaxSeed == 2
\* highest major compute capability the probe may report
MaxMajor == 9

(***************************************************************************)
(* Tokens.                                                                 *)
(***************************************************************************)
NL == "\n"
SP == " "
SCHEMA_OPEN == "<SCHEMA>"
SCHEMA_CLOSE == "</SCHEMA>"
USER_QUERY_OPEN == "<USER_QUERY>"
USER_QUERY_CLOSE == "</USER_QUERY>"

Tags == {SCHEMA_OPEN, SCHEMA_CLOSE, USER_QUERY_OPEN, USER_QUERY_CLOSE}
Whitespace == {NL, SP}
Alphabet == {"a", NL} \cup Tags

\* all strings over S of length at most n
StringsUpTo(S, n) == UNION {[1..k -> S] : k \in 0..n}

RECURSIVE Concat(_)
Concat(ss) == IF ss = <<>> THEN <<>> ELSE Head(ss) \o Concat(Tail(ss))

Min(S) == CHOOSE x \in S : \A y \in S : x <= y

\* Python: s[i:] for a 0-based i, on a sequence
DropFirst(s, n) == SubSeq(s, n + 1, Len(s))

\* Python: s[:n]
TakeFirst(s, n) == SubSeq(s, 1, IF n < Len(s) THEN n ELSE Len(s))

\* Python: str.strip()
strip(s) ==
    LET keep == {i \in 1..Len(s) : s[i] \notin Whitespace}
    IN  IF keep = {} THEN <<>>
        ELSE SubSeq(s, Min(keep), CHOOSE i \in keep : \A j \in keep : j <= i)

(***************************************************************************)
(* script.py lines 11-32: the templates and create_conversation.           *)
(***************************************************************************)
system_message == <<"You are a text to SQL query translator.">>

\* the template with the two sections in the other order
user_prompt_query_first(question, context) ==
    <<"Given the ", USER_QUERY_OPEN, " and the ", SCHEMA_OPEN,
      ", generate the corresponding SQL command", NL, NL,
      USER_QUERY_OPEN, NL>> \o question
    \o <<NL, USER_QUERY_CLOSE, NL, NL, SCHEMA_OPEN, NL>> \o context
    \o <<NL, SCHEMA_CLOSE, NL>>

\* user_prompt.format(question=..., context=...)
user_prompt(question, context) ==
    <<"Given the ", USER_QUERY_OPEN, " and the ", SCHEMA_OPEN,
      ", generate the corresponding SQL command", NL, NL,
      SCHEMA_OPEN, NL>> \o context
    \o <<NL, SCHEMA_CLOSE, NL, NL, USER_QUERY_OPEN, NL>> \o question
    \o <<NL, USER_QUERY_CLOSE, NL>>

\* create_conversation with the question and the context exchanged
create_conversation_swapped(s) ==
    << [role |-> "user",
        content |-> user_prompt(s.sql_context, s.sql_prompt)],
       [role |-> "assistant", content |-> s.sql] >>

\* create_conversation with the system turn of line 28 switched on
create_conversation_system(s) ==
    << [role |-> "system", content |-> system_message],
       [role |-> "user",
        content |-> user_prompt(s.sql_prompt, s.sql_context)],
       [role |-> "assistant", content |-> s.sql] >>

create_conversation(s) ==
    << [role |-> "user",
        content |-> user_prompt(s.sql_prompt, s.sql_context)],
       [role |-> "assistant", content |-> s.sql] >>

(***************************************************************************)
(* script.py lines 178-179: re.search(r'<TAG>\n(.*?)\n</TAG>', s, DOTALL). *)
(* The match starts at the leftmost opening tag followed by a newline for  *)
(* which a newline followed by the closing tag comes later; the group is   *)
(* the shortest text between them.                                         *)
(***************************************************************************)
NoMatch == [found |-> FALSE, group1 |-> <<>>]

Closings(close, s, i) ==
    {j \in (i + 2)..(Len(s) - 1) : s[j] = NL /\ s[j + 1] = close}

Openings(open, close, s) ==
    {i \in 1..(Len(s) - 3) :
        s[i] = open /\ s[i + 1] = NL /\ Closings(close, s, i) # {}}

re_search(open, close, s) ==
    IF Openings(open, close, s) = {} THEN NoMatch
    ELSE LET i == Min(Openings(open, close, s))
             j == Min(Closings(close, s, i))
         IN  [found |-> TRUE, group1 |-> SubSeq(s, i + 2, j - 1)]

\* every block <TAG>\n...\n</TAG> of s, left to right, as re.findall gives them
RECURSIVE Blocks(_, _, _)
Blocks(open, close, s) ==
    IF Openings(open, close, s) = {} THEN <<>>
    ELSE LET i == Min(Openings(open, close, s))
             j == Min(Closings(close, s, i))
         IN  <<SubSeq(s, i + 2, j - 1)>>
             \o Blocks(open, close, DropFirst(s, j + 1))

(***************************************************************************)
(* script.py lines 178-181: the report of the evaluation harness.          *)
(***************************************************************************)
NoException == [at |-> "none", exc |-> "none"]

\* the extraction printing an empty field where the pattern is not found
ExtractField_silent(open, close, content) ==
    [ok |-> TRUE, text |-> strip(re_search(open, close, content).group1)]

\* re.search(pattern, content, re.DOTALL).group(1).strip(); re.search gives
\* None where the pattern is not found, and None.group raises AttributeError
ExtractField(open, close, content) ==
    IF re_search(open, close, content).found
    THEN [ok |-> TRUE, text |-> strip(re_search(open, close, content).group1)]
    ELSE [ok |-> FALSE, text |-> <<>>]

HarnessUnchanged ==
    UNCHANGED <<probe, torch_dtype, dataset, model, trainer, peft_model,
                merged_model, pipe, loads, rand_idx, test_sample, chat_input,
                prompt, outputs, sample>>

\* line 178
ReportContext ==
    /\ pc = "report_context"
    /\ LET r == ExtractField(SCHEMA_OPEN, SCHEMA_CLOSE,
                             test_sample.messages[1].content)
       IN  IF r.ok
           THEN /\ printed' = Append(printed, [field |-> "Context", text |-> r.text])
                /\ pc' = "report_query"
                /\ UNCHANGED raised
           ELSE /\ pc' = "crashed"
                /\ raised' = [at |-> "report_context", exc |-> "AttributeError"]
                /\ UNCHANGED printed
    /\ HarnessUnchanged

\* line 179
ReportQuery ==
    /\ pc = "report_query"
    /\ LET r == ExtractField(USER_QUERY_OPEN, USER_QUERY_CLOSE,
                             test_sample.messages[1].content)
       IN  IF r.ok
           THEN /\ printed' = Append(printed, [field |-> "Query", text |-> r.text])
                /\ pc' = "report_original"
                /\ UNCHANGED raised
           ELSE /\ pc' = "crashed"
                /\ raised' = [at |-> "report_query", exc |-> "AttributeError"]
                /\ UNCHANGED printed
    /\ HarnessUnchanged

\* line 180
ReportOriginal ==
    /\ pc = "report_original"
    /\ printed' = Append(printed, [field |-> "Original Answer",
                                   text |-> test_sample.messages[2].content])
    /\ pc' = "report_generated"
    /\ UNCHANGED raised
    /\ HarnessUnchanged

\* line 181
ReportGenerated ==
    /\ pc = "report_generated"
    /\ printed' = Append(printed, [field |-> "Generated Answer",
                                   text |-> strip(DropFirst(outputs, Len(prompt)))])
    /\ pc' = "done"
    /\ UNCHANGED raised
    /\ HarnessUnchanged

(***************************************************************************)
(* The builder and the extraction step as functions of their inputs.       *)
(***************************************************************************)
NoProbe == [kind |-> "unavailable", major |-> 0]
NoSample == [sql_prompt |-> <<>>, sql_context |-> <<>>, sql |-> <<>>]
SqlTexts == {<<"SELECT 1">>, <<"SELECT 2", NL>>}

RawRecords ==
    [sql_prompt : StringsUpTo(Alphabet, MaxLen),
     sql_context : StringsUpTo(Alphabet, MaxLen),
     sql : SqlTexts]

\* everything of the main program at rest
ProgramAtRest ==
    /\ raised = NoException
    /\ probe = NoProbe
    /\ torch_dtype = "unset"
    /\ dataset = [rows |-> <<>>]
    /\ model = "None"
    /\ trainer = "None"
    /\ peft_model = "None"
    /\ merged_model = "None"
    /\ pipe = "None"
    /\ loads = <<>>
    /\ rand_idx = 0
    /\ chat_input = <<>>
    /\ prompt = <<>>
    /\ outputs = <<>>
    /\ printed = <<>>

\* dataset.map(create_conversation) on one row, then the report on that row
CreateConversation ==
    /\ pc = "create_conversation"
    /\ test_sample' = [messages |-> create_conversation(sample)]
    /\ pc' = "report_context"
    /\ UNCHANGED <<raised, probe, torch_dtype, dataset, model, trainer,
                   peft_model, merged_model, pipe, loads, rand_idx, chat_input,
                   prompt, outputs, printed, sample>>

InitBuilder ==
    /\ pc = "create_conversation"
    /\ sample \in RawRecords
    /\ test_sample = [messages |-> <<>>]
    /\ ProgramAtRest

NextBuilder ==
    \/ CreateConversation
    \/ ReportContext
    \/ ReportQuery
    \/ ReportOriginal
    \/ ReportGenerated

SpecBuilder == InitBuilder /\ [][NextBuilder]_vars

\* pieces an arbitrary message content is put together from
Chunks ==
    { <<SCHEMA_OPEN, NL>>, <<NL, SCHEMA_CLOSE>>,
      <<USER_QUERY_OPEN, NL>>, <<NL, USER_QUERY_CLOSE>>, <<"a">>, <<NL>> }

ArbitraryContents == {Concat(cs) : cs \in StringsUpTo(Chunks, MaxChunks)}

InitExtract ==
    /\ pc = "report_context"
    /\ sample = NoSample
    /\ \E c \in ArbitraryContents, s \in SqlTexts :
          test_sample = [messages |-> << [role |-> "user", content |-> c],
                                         [role |-> "assistant", content |-> s] >>]
    /\ ProgramAtRest

NextExtract ==
    \/ ReportContext
    \/ ReportQuery
    \/ ReportOriginal
    \/ ReportGenerated

SpecExtract == InitExtract /\ [][NextExtract]_vars

(***************************************************************************)
(* script.py lines 36-46: the dataset pipeline.  The sizes of the script   *)
(* are 12500 = 5 * 2500 rows and test_size = 2500 / 12500; the model keeps *)
(* the ratio and runs them at 5 * Scale and Scale / (5 * Scale).           *)
(***************************************************************************)
SampleSize == 5 * Scale
TestSizeNumerator == Scale
TestSizeDenominator == 5 * Scale

PoolSizes == (SampleSize - 1)..(SampleSize + MaxExtra)
Seeds == [rot : 0..MaxSeed, rev : BOOLEAN]

\* one row of the corpus: the i-th Raw Record
RawRow(i) ==
    [sql_prompt |-> <<"question", ToString(i)>>,
     sql_context |-> <<"CREATE TABLE", ToString(i)>>,
     sql |-> <<"SELECT", ToString(i)>>]

\* the rows in the order the random generator gives for this seed
Shuffled(rows, seed) ==
    LET n == Len(rows)
        rotated == [i \in 1..n |-> rows[((i - 1 + seed.rot) % n) + 1]]
    IN  IF seed.rev THEN [i \in 1..n |-> rotated[n + 1 - i]] ELSE rotated

\* the shuffle without the select
shuffle_only(rows, seed) ==
    [ok |-> TRUE, rows |-> Shuffled(rows, seed)]

\* dataset.shuffle().select(range(12500)); select raises on an index
\* that is not a row of the dataset
shuffle_select(rows, seed) ==
    IF SampleSize > Len(rows)
    THEN [ok |-> FALSE, rows |-> <<>>]
    ELSE [ok |-> TRUE, rows |-> SubSeq(Shuffled(rows, seed), 1, SampleSize)]

\* the number of test rows for a fractional test_size: its ceiling
n_test(n) ==
    (n * TestSizeNumerator + TestSizeDenominator - 1) \div TestSizeDenominator

\* dataset.train_test_split(test_size=2500/12500)
train_test_split(rows, seed) ==
    LET permuted == Shuffled(rows, seed)
    IN  [test |-> SubSeq(permuted, 1, n_test(Len(rows))),
         train |-> SubSeq(permuted, n_test(Len(rows)) + 1, Len(rows))]

DataUnchanged ==
    UNCHANGED <<probe, torch_dtype, model, trainer, peft_model, merged_model,
                pipe, loads, rand_idx, test_sample, chat_input, prompt,
                outputs, sample>>

\* line 37
LoadDataset ==
    /\ pc = "load_dataset"
    /\ \E n \in PoolSizes : dataset' = [rows |-> [i \in 1..n |-> RawRow(i)]]
    /\ pc' = "shuffle_select"
    /\ UNCHANGED <<raised, printed>>
    /\ DataUnchanged

\* line 38
ShuffleSelect ==
    /\ pc = "shuffle_select"
    /\ \E seed \in Seeds :
          LET r == shuffle_select(dataset.rows, seed)
          IN  IF r.ok
              THEN /\ dataset' = [rows |-> r.rows]
                   /\ pc' = "map"
                   /\ UNCHANGED raised
              ELSE /\ pc' = "crashed"
                   /\ raised' = [at |-> "shuffle_select", exc |-> "IndexError"]
                   /\ UNCHANGED dataset
    /\ UNCHANGED printed
    /\ DataUnchanged

\* line 41: every row becomes its conversation, the raw columns are removed
Map ==
    /\ pc = "map"
    /\ dataset' = [rows |-> [i \in 1..Len(dataset.rows) |->
                                [messages |-> create_conversation(dataset.rows[i])]]]
    /\ pc' = "train_test_split"
    /\ UNCHANGED <<raised, printed>>
    /\ DataUnchanged

\* line 43
TrainTestSplit ==
    /\ pc = "train_test_split"
    /\ \E seed \in Seeds : dataset' = train_test_split(dataset.rows, seed)
    /\ pc' = "print_train"
    /\ UNCHANGED <<raised, printed>>
    /\ DataUnchanged

\* line 46: train row 345 of 10000 exists; the model prints the first train row
PrintTrain ==
    /\ pc = "print_train"
    /\ printed' = Append(printed, [field |-> "train",
                                   text |-> dataset.train[1].messages[2].content])
    /\ pc' = "select_dtype"
    /\ UNCHANGED <<raised, dataset>>
    /\ DataUnchanged

(***************************************************************************)
(* The precision selection: script.py lines 57-61 and test.py lines 3-17.  *)
(***************************************************************************)
Probes ==
    {[kind |-> "unavailable", major |-> 0], [kind |-> "error", major |-> 0]}
    \cup {[kind |-> "available", major |-> m] : m \in 0..MaxMajor}

\* the major capability from which bfloat16 is chosen
CapabilityThreshold == 8

\* script.py: torch.cuda.get_device_capability() is called unguarded; it raises
\* where no device is present and where the query fails
script_torch_dtype(p) ==
    IF p.kind = "available"
    THEN [ok |-> TRUE,
          dtype |-> IF p.major >= CapabilityThreshold THEN "bfloat16" ELSE "float16"]
    ELSE [ok |-> FALSE, dtype |-> "unset"]

\* test.py: is_available() guards the query and the query is inside try/except
test_torch_dtype(p) ==
    IF p.kind = "unavailable" THEN "float32"
    ELSE IF p.kind = "error" THEN "float16"
    ELSE IF p.major >= CapabilityThreshold THEN "bfloat16" ELSE "float16"

\* lines 48-61
SelectDtype ==
    /\ pc = "select_dtype"
    /\ IF script_torch_dtype(probe).ok
       THEN /\ torch_dtype' = script_torch_dtype(probe).dtype
            /\ pc' = "load_quantized"
            /\ UNCHANGED raised
       ELSE /\ pc' = "crashed"
            /\ raised' = [at |-> "select_dtype", exc |-> "RuntimeError"]
            /\ UNCHANGED torch_dtype
    /\ UNCHANGED <<probe, dataset, model, trainer, peft_model, merged_model, pipe,
                   loads, rand_idx, test_sample, chat_input, prompt, outputs,
                   printed, sample>>

(***************************************************************************)
(* script.py lines 63-164: the three model acquisitions.  A handle is      *)
(* modelled by the model object it keeps alive, "None" once deleted.       *)
(***************************************************************************)
\* the model objects some live name of the script still refers to
Held == {model, trainer, peft_model, merged_model, pipe} \ {"None"}

ModelUnchanged ==
    UNCHANGED <<raised, probe, torch_dtype, dataset, rand_idx, test_sample,
                chat_input, prompt, outputs, printed, sample>>

\* lines 63-81: model = model_class.from_pretrained(model_id, **model_kwargs)
LoadQuantized ==
    /\ pc = "load_quantized"
    /\ loads' = Append(loads, [loading |-> "quantized", held |-> Held])
    /\ model' = "quantized"
    /\ pc' = "create_trainer"
    /\ UNCHANGED <<trainer, peft_model, merged_model, pipe>>
    /\ ModelUnchanged

\* lines 83-125: trainer = SFTTrainer(model=model, ...)
CreateTrainer ==
    /\ pc = "create_trainer"
    /\ trainer' = model
    /\ pc' = "train"
    /\ UNCHANGED <<model, peft_model, merged_model, pipe, loads>>
    /\ ModelUnchanged

\* line 128
Train ==
    /\ pc = "train"
    /\ pc' = "save_model"
    /\ UNCHANGED <<model, trainer, peft_model, merged_model, pipe, loads>>
    /\ ModelUnchanged

\* line 131
SaveModel ==
    /\ pc = "save_model"
    /\ pc' = "release"
    /\ UNCHANGED <<model, trainer, peft_model, merged_model, pipe, loads>>
    /\ ModelUnchanged

\* lines 133-135: del model; del trainer; torch.cuda.empty_cache()
Release ==
    /\ pc = "release"
    /\ model' = "None"
    /\ trainer' = "None"
    /\ pc' = "load_base"
    /\ UNCHANGED <<peft_model, merged_model, pipe, loads>>
    /\ ModelUnchanged

\* line 138: model = model_class.from_pretrained(model_id, low_cpu_mem_usage=True)
LoadBase ==
    /\ pc = "load_base"
    /\ loads' = Append(loads, [loading |-> "base", held |-> Held])
    /\ model' = "base"
    /\ pc' = "merge"
    /\ UNCHANGED <<trainer, peft_model, merged_model, pipe>>
    /\ ModelUnchanged

\* lines 141-143: PeftModel.from_pretrained wraps model, merge_and_unload
\* returns the wrapped model with the adapter folded in
Merge ==
    /\ pc = "merge"
    /\ peft_model' = model
    /\ merged_model' = model
    /\ pc' = "save_processor"
    /\ UNCHANGED <<model, trainer, pipe, loads>>
    /\ ModelUnchanged

\* lines 145-146
SaveProcessor ==
    /\ pc = "save_processor"
    /\ pc' = "load_finetuned"
    /\ UNCHANGED <<model, trainer, peft_model, merged_model, pipe, loads>>
    /\ ModelUnchanged

\* lines 148-157: model = model_class.from_pretrained("gemma-text-to-sql", ...);
\* the name model is rebound only once the load has returned
LoadFinetuned ==
    /\ pc = "load_finetuned"
    /\ loads' = Append(loads, [loading |-> "finetuned", held |-> Held])
    /\ model' = "finetuned"
    /\ pc' = "pipeline"
    /\ UNCHANGED <<trainer, peft_model, merged_model, pipe>>
    /\ ModelUnchanged

\* line 164
Pipeline ==
    /\ pc = "pipeline"
    /\ pipe' = model
    /\ pc' = "randint"
    /\ UNCHANGED <<model, trainer, peft_model, merged_model, loads>>
    /\ ModelUnchanged

\* the calls into the framework that may raise (out of memory, network, ...)
CollaboratorSteps ==
    {"load_dataset", "load_quantized", "create_trainer", "train", "save_model",
     "load_base", "merge", "save_processor", "load_finetuned", "pipeline",
     "generate"}

\* nothing in the script catches an exception: the process ends
CollaboratorFails ==
    /\ pc \in CollaboratorSteps
    /\ raised' = [at |-> pc, exc |-> "CollaboratorError"]
    /\ pc' = "crashed"
    /\ UNCHANGED <<probe, torch_dtype, dataset, model, trainer, peft_model,
                   merged_model, pipe, loads, rand_idx, test_sample, chat_input,
                   prompt, outputs, printed, sample>>

(***************************************************************************)
(* script.py lines 166-175: the sample, the prompt and the generation.     *)
(***************************************************************************)
\* line 167: randint(a, b) draws from a..b, both ends included
randint(a, b) == a..b

\* line 167
Randint ==
    /\ pc = "randint"
    /\ rand_idx' \in randint(0, Len(dataset.test))
    /\ pc' = "index_test"
    /\ UNCHANGED <<raised, probe, torch_dtype, dataset, model, trainer,
                   peft_model, merged_model, pipe, loads, test_sample,
                   chat_input, prompt, outputs, printed, sample>>

\* line 168: dataset["test"][rand_idx], rows counted from 0
IndexTest ==
    /\ pc = "index_test"
    /\ IF rand_idx < Len(dataset.test)
       THEN /\ test_sample' = dataset.test[rand_idx + 1]
            /\ pc' = "apply_chat_template"
            /\ UNCHANGED raised
       ELSE /\ pc' = "crashed"
            /\ raised' = [at |-> "index_test", exc |-> "IndexError"]
            /\ UNCHANGED test_sample
    /\ UNCHANGED <<probe, torch_dtype, dataset, model, trainer, peft_model,
                   merged_model, pipe, loads, rand_idx, chat_input, prompt,
                   outputs, printed, sample>>

\* the chat template of the instruction tokenizer: one block per turn, the
\* assistant's under the name model, then the generation cue
RECURSIVE RenderTurns(_)
RenderTurns(turns) ==
    IF turns = <<>> THEN <<>>
    ELSE <<"<start_of_turn>",
           IF Head(turns).role = "assistant" THEN "model" ELSE Head(turns).role,
           NL>>
         \o strip(Head(turns).content) \o <<"<end_of_turn>", NL>>
         \o RenderTurns(Tail(turns))

apply_chat_template(turns, add_generation_prompt) ==
    <<"<bos>">> \o RenderTurns(turns)
    \o (IF add_generation_prompt THEN <<"<start_of_turn>", "model", NL>> ELSE <<>>)

\* lines 170-172: the turns handed over are test_sample["messages"][:2]
ApplyChatTemplate ==
    /\ pc = "apply_chat_template"
    /\ chat_input' = TakeFirst(test_sample.messages, 2)
    /\ prompt' = apply_chat_template(TakeFirst(test_sample.messages, 2), TRUE)
    /\ pc' = "generate"
    /\ UNCHANGED <<raised, probe, torch_dtype, dataset, model, trainer,
                   peft_model, merged_model, pipe, loads, rand_idx, test_sample,
                   outputs, printed, sample>>

\* what the generator may append to the prompt
GeneratedTexts == {<<"SELECT 1">>, <<NL, "SELECT 2", NL>>}

\* line 175: the pipeline returns the prompt followed by the new text
Generate ==
    /\ pc = "generate"
    /\ \E g \in GeneratedTexts : outputs' = prompt \o g
    /\ pc' = "report_context"
    /\ UNCHANGED <<raised, probe, torch_dtype, dataset, model, trainer,
                   peft_model, merged_model, pipe, loads, rand_idx, test_sample,
                   chat_input, prompt, printed, sample>>

(***************************************************************************)
(* The run of script.py.                                                   *)
(***************************************************************************)
Init ==
    /\ pc = "load_dataset"
    /\ raised = NoException
    /\ probe \in Probes
    /\ torch_dtype = "unset"
    /\ dataset = [rows |-> <<>>]
    /\ model = "None"
    /\ trainer = "None"
    /\ peft_model = "None"
    /\ merged_model = "None"
    /\ pipe = "None"
    /\ loads = <<>>
    /\ rand_idx = 0
    /\ test_sample = [messages |-> <<>>]
    /\ chat_input = <<>>
    /\ prompt = <<>>
    /\ outputs = <<>>
    /\ printed = <<>>
    /\ sample = NoSample

Next ==
    \/ LoadDataset
    \/ ShuffleSelect
    \/ Map
    \/ TrainTestSplit
    \/ PrintTrain
    \/ SelectDtype
    \/ LoadQuantized
    \/ CreateTrainer
    \/ Train
    \/ SaveModel
    \/ Release
    \/ LoadBase
    \/ Merge
    \/ SaveProcessor
    \/ LoadFinetuned
    \/ Pipeline
    \/ Randint
    \/ IndexTest
    \/ ApplyChatTemplate
    \/ Generate
    \/ ReportContext
    \/ ReportQuery
    \/ ReportOriginal
    \/ ReportGenerated
    \/ CollaboratorFails

Spec == Init /\ [][Next]_vars

(***************************************************************************)
(* Properties.                                                             *)
(***************************************************************************)
Range(f) == {f[i] : i \in DOMAIN f}

TagFree(str) == \A i \in 1..Len(str) : str[i] \notin Tags

\* neither text of the record holds a delimiter tag
CleanRecord(r) == TagFree(r.sql_context) /\ TagFree(r.sql_prompt)

\* the report holds the Context line / the Query line
ContextReported == pc \in {"report_query", "report_original", "report_generated", "done"}
QueryReported == pc \in {"report_original", "report_generated", "done"}

\* C1 as stated: the extraction step applied to the user turn built by
\* create_conversation gives back the record's context and question unchanged,
\* whatever the two strings are.
RoundTripExact ==
    /\ ContextReported => printed[1] = [field |-> "Context", text |-> sample.sql_context]
    /\ QueryReported => printed[2] = [field |-> "Query", text |-> sample.sql_prompt]

\* C1 amended: for a record whose context and question hold no delimiter tag,
\* the extraction step applied to the user turn built by create_conversation
\* gives back the context and the question with the whitespace at their ends
\* trimmed.
RoundTripTrimmed ==
    CleanRecord(sample) =>
        /\ ContextReported =>
              printed[1] = [field |-> "Context", text |-> strip(sample.sql_context)]
        /\ QueryReported =>
              printed[2] = [field |-> "Query", text |-> strip(sample.sql_prompt)]

\* a tag-free record with whitespace around both texts has been reported
RoundTripWitness ==
    /\ pc = "done"
    /\ sample.sql_context = <<NL, "a">>
    /\ sample.sql_prompt = <<"a", NL>>
    /\ printed[1].text = <<"a">>
    /\ printed[2].text = <<"a">>

\* the formatter's output holds one block of each kind, with the given
\* contents, the schema block first
OneBlockEach(out, context, question) ==
    /\ Len(Blocks(SCHEMA_OPEN, SCHEMA_CLOSE, out)) = 1
    /\ strip(Blocks(SCHEMA_OPEN, SCHEMA_CLOSE, out)[1]) = strip(context)
    /\ Len(Blocks(USER_QUERY_OPEN, USER_QUERY_CLOSE, out)) = 1
    /\ strip(Blocks(USER_QUERY_OPEN, USER_QUERY_CLOSE, out)[1]) = strip(question)
    /\ Min(Openings(SCHEMA_OPEN, SCHEMA_CLOSE, out))
         < Min(Openings(USER_QUERY_OPEN, USER_QUERY_CLOSE, out))

\* C2 as stated: for every record the formatter's output holds exactly one
\* <SCHEMA> block, equal to the trimmed context, and exactly one <USER_QUERY>
\* block, equal to the trimmed question, the schema block first.
FormatterBlocksAlways ==
    pc # "create_conversation" =>
        OneBlockEach(test_sample.messages[1].content,
                     sample.sql_context, sample.sql_prompt)

\* C2 amended: the same, for every record whose context and question hold no
\* delimiter tag.
FormatterBlocksTagFree ==
    (pc # "create_conversation" /\ CleanRecord(sample)) =>
        OneBlockEach(test_sample.messages[1].content,
                     sample.sql_context, sample.sql_prompt)

\* a tag-free record of the longest texts has been formatted
FormatterBlocksWitness ==
    /\ pc = "report_context"
    /\ CleanRecord(sample)
    /\ Len(sample.sql_context) = MaxLen
    /\ Len(sample.sql_prompt) = MaxLen
    /\ sample.sql_context # sample.sql_prompt
    /\ Blocks(SCHEMA_OPEN, SCHEMA_CLOSE, test_sample.messages[1].content)
         = <<sample.sql_context>>

\* C3: create_conversation gives exactly two turns, the user turn holding the
\* formatter's output for the record's sql_prompt and sql_context, then the
\* assistant turn holding the record's sql unchanged; no system turn; the
\* result is a function of the record alone.
TwoTurnsInOrder ==
    pc # "create_conversation" =>
        /\ Len(test_sample.messages) = 2
        /\ test_sample.messages[1] =
              [role |-> "user",
               content |-> user_prompt(sample.sql_prompt, sample.sql_context)]
        /\ test_sample.messages[2] = [role |-> "assistant", content |-> sample.sql]
        /\ \A i \in 1..Len(test_sample.messages) :
              test_sample.messages[i].role # "system"

\* a record whose sql ends in a newline has been converted, the newline kept
TwoTurnsWitness ==
    /\ pc = "report_context"
    /\ sample.sql = <<"SELECT 2", NL>>
    /\ sample.sql_context = <<SCHEMA_CLOSE>>
    /\ test_sample.messages[2].content = <<"SELECT 2", NL>>

\* C4: the index drawn for the test record is a row of the test subset.
RandIdxInRange ==
    pc = "index_test" => rand_idx \in 0..(Len(dataset.test) - 1)

\* the precision selection has run (to its end or to an exception)
SelectorRan ==
    /\ pc \notin {"load_dataset", "shuffle_select", "map", "train_test_split",
                  "print_train", "select_dtype"}
    /\ raised.at \notin {"load_dataset", "shuffle_select"}

\* C5: no probe outcome makes the precision selection raise; it always yields
\* a precision, and float16 where the probe failed.
SelectorNeverRaises ==
    /\ raised.at # "select_dtype"
    /\ SelectorRan => torch_dtype \in {"float32", "float16", "bfloat16"}
    /\ (SelectorRan /\ probe.kind = "error") => torch_dtype = "float16"

\* C6: no accelerator gives float32, a major capability below 8 gives float16,
\* 8 or above gives bfloat16; the result is one of the three precisions.
PrecisionByEnvironment ==
    SelectorRan =>
        /\ torch_dtype \in {"float32", "float16", "bfloat16"}
        /\ probe.kind = "unavailable" => torch_dtype = "float32"
        /\ (probe.kind = "available" /\ probe.major < 8) => torch_dtype = "float16"
        /\ (probe.kind = "available" /\ probe.major >= 8) => torch_dtype = "bfloat16"

\* K * F rounded to the nearest integer, F = TestSizeNumerator / TestSizeDenominator
RoundedTestCount ==
    (2 * SampleSize * TestSizeNumerator + TestSizeDenominator)
        \div (2 * TestSizeDenominator)

NoRepeats(rows) == Cardinality(Range(rows)) = Len(rows)

PromptOmitsAssistantTurn ==
    pc \in {"generate", "report_context", "report_query", "report_original",
            "report_generated", "done"} =>
        \A i \in 1..Len(chat_input) : chat_input[i].role # "assistant"

\* C9: whenever a model is loaded, every model loaded before it has been
\* released, with every handle derived from it.
EveryLoadStartsReleased ==
    \A i \in 1..Len(loads) : loads[i].held = {}

\* the content holds <TAG>\n ... \n</TAG> for the pair of tags
HasPair(open, close, str) ==
    \E i \in 1..Len(str), j \in 1..Len(str) :
        /\ i + 2 <= j
        /\ j + 1 <= Len(str)
        /\ str[i] = open /\ str[i + 1] = NL
        /\ str[j] = NL /\ str[j + 1] = close

FieldsPrinted == {printed[i].field : i \in 1..Len(printed)}

\* C10: where the searched content lacks a delimiter pair, the extraction of
\* that field ends the run with an exception raised at that statement, the
\* field is not printed (neither empty nor otherwise) and the report is never
\* completed.
MissingDelimitersAreFatal ==
    LET content == test_sample.messages[1].content
    IN  /\ (~HasPair(SCHEMA_OPEN, SCHEMA_CLOSE, content) /\ pc # "report_context") =>
              /\ pc = "crashed"
              /\ raised = [at |-> "report_context", exc |-> "AttributeError"]
              /\ printed = <<>>
        /\ (/\ HasPair(SCHEMA_OPEN, SCHEMA_CLOSE, content)
            /\ ~HasPair(USER_QUERY_OPEN, USER_QUERY_CLOSE, content)
            /\ pc \notin {"report_context", "report_query"}) =>
              /\ pc = "crashed"
              /\ raised = [at |-> "report_query", exc |-> "AttributeError"]
              /\ "Query" \notin FieldsPrinted
        /\ pc = "done" =>
              /\ HasPair(SCHEMA_OPEN, SCHEMA_CLOSE, content)
              /\ HasPair(USER_QUERY_OPEN, USER_QUERY_CLOSE, content)

\* a content with the schema pair and without the query pair has stopped the
\* run at the query line
MissingDelimitersWitness ==
    /\ pc = "crashed"
    /\ raised.at = "report_query"
    /\ HasPair(SCHEMA_OPEN, SCHEMA_CLOSE, test_sample.messages[1].content)
    /\ ~HasPair(USER_QUERY_OPEN, USER_QUERY_CLOSE, test_sample.messages[1].content)
    /\ USER_QUERY_OPEN \in Range(test_sample.messages[1].content)

====
